---- MODULE Spec2Model ----
(***************************************************************************)
(* A model of remote_device.py: the RemoteDevice session (handshake,       *)
(* request/response correlation, response normalisation, method calls)     *)
(* and the discovery scan find_remote_device_ports/find_remote_device_port.*)
(*                                                                         *)
(* Python values are tagged records, so that values of different Python    *)
(* types can be compared the way Python's == compares them.  A Python dict *)
(* is a set of <<key, value>> pairs with unique keys.                      *)
(***************************************************************************)
EXTENDS Integers, Sequences, FiniteSets, TLC

(***************************************************************************)
(* Python values                                                           *)
(***************************************************************************)
IntV(n) == [type |-> "int", num |-> n, str |-> ""]
StrV(s) == [type |-> "str", num |-> 0, str |-> s]
BoolV(b) == [type |-> "bool", num |-> IF b THEN 1 ELSE 0, str |-> ""]
NoneV == [type |-> "NoneType", num |-> 0, str |-> ""]

\* type(v) == str
IsStr(v) == v.type = "str"

\* bool(v): the truth value Python gives a value
Truthy(v) ==
    IF v.type = "str" THEN v.str # ""
    ELSE IF v.type \in {"int", "bool"} THEN v.num # 0
    ELSE FALSE

Digits == <<"0", "1", "2", "3", "4", "5", "6", "7", "8", "9">>

RECURSIVE IntToStr(_)
IntToStr(n) ==
    IF n < 10 THEN Digits[n + 1]
    ELSE IntToStr(n \div 10) \o Digits[(n % 10) + 1]

\* str(v), as map(str,args) applies it
PyStr(v) ==
    IF v.type = "str" THEN v.str
    ELSE IF v.type = "int" THEN IntToStr(v.num)
    ELSE IF v.type = "bool" THEN (IF v.num = 1 THEN "True" ELSE "False")
    ELSE "None"

(***************************************************************************)
(* Python dicts                                                            *)
(***************************************************************************)
Keys(d) == {p[1] : p \in d}
Values(d) == {p[2] : p \in d}
Has(d, k) == k \in Keys(d)
Get(d, k) == (CHOOSE p \in d : p[1] = k)[2]
Without(d, k) == {p \in d : p[1] # k}

\* The key names of the model in ascending order of Python's string
\* comparison (byte order: upper case before lower case).
KeyOrder ==
    <<"a", "b", "cmd_id", "err_msg", "getDeviceInfo", "model_number",
      "rsp_error", "rsp_success", "serial_number", "setLed", "status", "x">>

KeyRank(k) == CHOOSE i \in 1..Len(KeyOrder) : KeyOrder[i] = k

RECURSIVE SortedKeys(_)
SortedKeys(ks) ==
    IF ks = {} THEN <<>>
    ELSE LET least == CHOOSE k \in ks : \A o \in ks : KeyRank(k) <= KeyRank(o)
         IN <<least>> \o SortedKeys(ks \ {least})

(***************************************************************************)
(* Reserved command ids                                                    *)
(***************************************************************************)
GET_DEVICE_INFO_METHOD_ID == 0
GET_METHOD_IDS_METHOD_ID == 1
GET_RESPONSE_CODES_METHOD_ID == 2

(***************************************************************************)
(* Outcome of a call: the value it returns or the exception it raises      *)
(***************************************************************************)
Returns(d) == [exc |-> "", msg |-> "", val |-> d]
Raises(e, m) == [exc |-> e, msg |-> m, val |-> {}]

(***************************************************************************)
(* _args_to_request: '[' + ','.join(map(str,args)) + ']' + newline         *)
(***************************************************************************)
RECURSIVE JoinComma(_)
JoinComma(args) ==
    IF Len(args) = 0 THEN ""
    ELSE IF Len(args) = 1 THEN PyStr(args[1])
    ELSE PyStr(args[1]) \o "," \o JoinComma(Tail(args))

args_to_request(args) == "[" \o JoinComma(args) \o "]" \o "\n"

(***************************************************************************)
(* What the link hands back for one write_read: nothing (None), a line     *)
(* that is not JSON, a line that is a JSON array, or a JSON object         *)
(***************************************************************************)
NoResponse == [kind |-> "none", obj |-> {}]
Garbage == [kind |-> "garbage", obj |-> {}]
ArrayLine == [kind |-> "array", obj |-> {}]
ObjectLine(d) == [kind |-> "object", obj |-> d]

(***************************************************************************)
(* _send_request_get_response, after the write: the checks on the reply    *)
(***************************************************************************)
\* the id check left out
IdMismatch_unchecked(response_id, sent_id) == FALSE

\* line 150: not response_id == args[0]
IdMismatch(response_id, sent_id) == ~(response_id = sent_id)

\* the status compared with the wrong entry of the catalog
IsErrorStatus_wrong_key(self, status) ==
    /\ ~self.response_dict_is_none
    /\ status = Get(self.response_dict, "rsp_success")

\* lines 152-153: the catalog is known and the status is its rsp_error
IsErrorStatus(self, status) ==
    /\ ~self.response_dict_is_none
    /\ status = Get(self.response_dict, "rsp_error")

\* lines 154-158: the message of the device error
DeviceErrorMessage(response_dict) ==
    IF Has(response_dict, "err_msg")
    THEN "(from device) " \o PyStr(Get(response_dict, "err_msg"))
    ELSE "Error message missing."

\* cmd_id read without being removed
PopStatusAndId_keeps_id(obj) == Without(obj, "status")

\* lines 141 and 146: the dict left after the two pops
PopStatusAndId(obj) == Without(Without(obj, "status"), "cmd_id")

send_request_get_response(self, args, response) ==
    IF response.kind = "none" THEN Returns({})
    ELSE IF response.kind = "garbage"
    THEN Raises("IOError", "Unable to parse device response")
    ELSE IF response.kind = "array"
    THEN Raises("TypeError", "")
    ELSE IF ~Has(response.obj, "status")
    THEN Raises("IOError", "Device response does not contain status.")
    ELSE IF ~Has(response.obj, "cmd_id")
    THEN Raises("IOError", "Device response does not contain id.")
    ELSE IF IdMismatch(Get(response.obj, "cmd_id"), args[1])
    THEN Raises("IOError", "Device response id does not match that sent.")
    ELSE IF IsErrorStatus(self, Get(response.obj, "status"))
    THEN Raises("IOError", DeviceErrorMessage(PopStatusAndId(response.obj)))
    ELSE Returns(PopStatusAndId(response.obj))

(***************************************************************************)
(* check_dict_for_key                                                      *)
(***************************************************************************)
check_dict_for_key(d, k, dname) ==
    IF ~Has(d, k)
    THEN Raises("IOError", dname \o " does not contain " \o k)
    ELSE Returns(d)

(***************************************************************************)
(* _process_response_dict: the value a method call returns for a result    *)
(* dict.  shape says which of scalar, list and dict holds the value.       *)
(***************************************************************************)
RetNone == [shape |-> "None", scalar |-> NoneV, list |-> <<>>, dict |-> {}]
RetScalar(v) == [shape |-> "scalar", scalar |-> v, list |-> <<>>, dict |-> {}]
RetList(l) == [shape |-> "list", scalar |-> NoneV, list |-> l, dict |-> {}]
RetDict(d) == [shape |-> "dict", scalar |-> NoneV, list |-> <<>>, dict |-> d]

\* every falsy value taken for an empty string ("if v" for the test)
AllValuesEmpty_any_falsy(response_dict) ==
    \A v \in Values(response_dict) : ~Truthy(v)

\* lines 212-216: no value makes "not type(v) == str or v" true
AllValuesEmpty(response_dict) ==
    \A v \in Values(response_dict) : ~(~IsStr(v) \/ Truthy(v))

process_response_dict(response_dict) ==
    IF Cardinality(response_dict) = 1
    THEN RetScalar((CHOOSE p \in response_dict : TRUE)[2])
    ELSE IF AllValuesEmpty(response_dict)
    THEN RetList(SortedKeys(Keys(response_dict)))
    ELSE RetDict(response_dict)

(***************************************************************************)
(* The RemoteDevice object                                                 *)
(***************************************************************************)
\* lines 88-91: the link is open, no catalog is known yet
NewSession(port) ==
    [port |-> port,
     serial_device |-> "open",
     response_dict_is_none |-> TRUE,
     response_dict |-> {},
     method_dict |-> {},
     method_dict_inv |-> {},
     attrs |-> {},
     device_info |-> {},
     model_number |-> NoneV,
     serial_number |-> NoneV]

\* The object before SerialDevice(...) has run
NoSession == [NewSession("") EXCEPT !.serial_device = "none"]

\* A step of the constructor: the object after it, what the step raised,
\* and the outcome of its _send_request_get_response
Step(self, raised, r) ==
    [self |-> self, exc |-> raised.exc, msg |-> raised.msg, call |-> r]

\* the status catalog asked for with the id of the command catalog
response_dict_request_wrong_id == <<IntV(GET_METHOD_IDS_METHOD_ID)>>

\* The requests of the three calls of the constructor
response_dict_request == <<IntV(GET_RESPONSE_CODES_METHOD_ID)>>
method_dict_request == <<IntV(GET_METHOD_IDS_METHOD_ID)>>
device_info_request == <<IntV(GET_DEVICE_INFO_METHOD_ID)>>

\* line 92 with _get_response_dict
get_response_dict(self, response) ==
    LET r == send_request_get_response(self, response_dict_request, response)
        c1 == check_dict_for_key(r.val, "rsp_success", "response_dict")
        c2 == check_dict_for_key(r.val, "rsp_error", "response_dict")
    IN IF r.exc # "" THEN Step(self, r, r)
       ELSE IF c1.exc # "" THEN Step(self, c1, r)
       ELSE IF c2.exc # "" THEN Step(self, c2, r)
       ELSE Step([self EXCEPT !.response_dict_is_none = FALSE,
                              !.response_dict = r.val], r, r)

\* inflection.underscore on the command names of the model
underscore(name) ==
    IF name = "setLed" THEN "set_led"
    ELSE IF name = "getDeviceInfo" THEN "get_device_info"
    ELSE IF name = "getMethods" THEN "get_methods"
    ELSE IF name = "deviceInfo" THEN "device_info"
    ELSE name

\* line 94: dict([(v,k) for (k,v) in method_dict.iteritems()])
Inverse(d) == {<<p[2], p[1]>> : p \in d}

\* _create_methods: setattr in ascending order of (id, name), so that of two
\* commands with one exposed name the one with the greater id stays (the
\* ids of the catalogs of the model are ints)
create_methods(self) ==
    [self EXCEPT !.attrs =
        {<<underscore(p[2]), p[2]>> : p \in
            {q \in self.method_dict_inv :
                ~\E o \in self.method_dict_inv :
                    /\ underscore(o[2]) = underscore(q[2])
                    /\ o[1].num > q[1].num}}]

\* lines 93-95 with _get_method_dict
get_method_dict(self, response) ==
    LET r == send_request_get_response(self, method_dict_request, response)
    IN IF r.exc # "" THEN Step(self, r, r)
       ELSE Step(create_methods([self EXCEPT !.method_dict = r.val,
                                             !.method_dict_inv = Inverse(r.val)]),
                 r, r)

\* lines 164-171: the field of device_info, None when it is missing
InfoField(device_info, k) ==
    IF Has(device_info, k) THEN Get(device_info, k) ELSE NoneV

\* the attributes lines 163-171 assign: an attribute of one of these names
\* that _create_methods had set is replaced by the data
InfoAttributes == {"device_info", "model_number", "serial_number"}

\* line 96 with _get_device_info
get_device_info(self, response) ==
    LET r == send_request_get_response(self, device_info_request, response)
    IN IF r.exc # "" THEN Step(self, r, r)
       ELSE Step([self EXCEPT !.device_info = r.val,
                              !.model_number = InfoField(r.val, "model_number"),
                              !.serial_number = InfoField(r.val, "serial_number"),
                              !.attrs = {a \in @ : a[1] \notin InfoAttributes}],
                 r, r)

(***************************************************************************)
(* Method calls                                                            *)
(***************************************************************************)
\* What a method call did: the object after it, whether a request was
\* written, what the call raised, the result dict of _send_request_by_method_name and the value
\* _method_func_base returns
Call(self, wrote, request, r, ret) ==
    [self |-> self, wrote |-> wrote, request |-> request, exc |-> r.exc,
     msg |-> r.msg, val |-> r.val, ret |-> ret]

\* an empty result dict returned as it is
ReturnValue_empty_dict(response_dict) ==
    IF response_dict # {} THEN process_response_dict(response_dict)
    ELSE RetDict({})

\* lines 197-199: a non-empty result dict is normalised, an empty one
\* makes the call return None
ReturnValue(response_dict) ==
    IF response_dict # {} THEN process_response_dict(response_dict) ELSE RetNone

\* a failed call that forgets the status catalog of the session
method_func_base_forgets_catalog(self, method_name, args, response) ==
    IF ~Has(self.method_dict, method_name)
    THEN Call(self, FALSE, <<>>, Raises("KeyError", method_name), RetNone)
    ELSE LET method_args == <<Get(self.method_dict, method_name)>> \o args
             r == send_request_get_response(self, method_args, response)
         IN Call(IF r.exc = "" THEN self
                 ELSE [self EXCEPT !.response_dict_is_none = TRUE],
                 TRUE, method_args, r,
                 IF r.exc = "" THEN ReturnValue(r.val) ELSE RetNone)

\* the arguments written to the link before the name is looked up
method_func_base_writes_first(self, method_name, args, response) ==
    IF ~Has(self.method_dict, method_name)
    THEN Call(self, TRUE, args, Raises("KeyError", method_name), RetNone)
    ELSE LET method_args == <<Get(self.method_dict, method_name)>> \o args
             r == send_request_get_response(self, method_args, response)
         IN Call(self, TRUE, method_args, r,
                 IF r.exc = "" THEN ReturnValue(r.val) ELSE RetNone)

\* _method_func_base with positional arguments, through
\* _send_request_by_method_name
method_func_base(self, method_name, args, response) ==
    IF ~Has(self.method_dict, method_name)
    THEN Call(self, FALSE, <<>>, Raises("KeyError", method_name), RetNone)
    ELSE LET method_args == <<Get(self.method_dict, method_name)>> \o args
             r == send_request_get_response(self, method_args, response)
         IN Call(self, TRUE, method_args, r,
                 IF r.exc = "" THEN ReturnValue(r.val) ELSE RetNone)

\* close
close(self) == [self EXCEPT !.serial_device = "closed"]

\* _exit_remote_device, the function registered with atexit at line 89
exit_remote_device(self) == self

\* get_methods: the exposed names of the keys of the method dict (a set
\* here: the list of line 239 is in the order of the dict)
get_methods(self) == {underscore(k) : k \in Keys(self.method_dict)}

(***************************************************************************)
(* Attribute lookup on the object: an attribute set by setattr at line 205 *)
(* comes before a method of the class of the same name                     *)
(***************************************************************************)
HasAttr(self, exposed) == \E a \in self.attrs : a[1] = exposed

\* the command name the callable under an exposed name is bound to
BoundName(self, exposed) == (CHOOSE a \in self.attrs : a[1] = exposed)[2]

\* The arguments of a method call: positional ones, or one dict (line 191:
\* len(args) == 1 and type(args[0]) is dict)
Positional(list) == [kind |-> "positional", list |-> list, dict |-> {}]
Mapping(dict) == [kind |-> "dict", list |-> <<>>, dict |-> dict]

\* A method call with a single dict argument, lines 191-193:
\* _args_dict_to_list reads order_dict at line 225, a name that is bound
\* nowhere in the module, whatever the dict is
ArgsList(exc, msg, list) == [exc |-> exc, msg |-> msg, list |-> list]

args_dict_to_list(args_dict) == ArgsList("NameError", "order_dict", <<>>)

method_func_base_dict(self, method_name, args_dict, response) ==
    LET l == args_dict_to_list(args_dict)
    IN IF l.exc # ""
       THEN Call(self, FALSE, <<>>, Raises(l.exc, l.msg), RetNone)
       ELSE method_func_base(self, method_name, l.list, response)

\* self.<exposed>(*args) for an exposed name get_methods lists: the call
\* of the callable setattr left there, or of the data that replaced it
\* (a dict is not callable)
call_attr(self, exposed, args, response) ==
    IF ~HasAttr(self, exposed)
    THEN Call(self, FALSE, <<>>,
              IF exposed \in InfoAttributes
              THEN Raises("TypeError", "not callable")
              ELSE Raises("AttributeError", exposed),
              RetNone)
    ELSE IF args.kind = "dict"
    THEN method_func_base_dict(self, BoundName(self, exposed), args.dict, response)
    ELSE method_func_base(self, BoundName(self, exposed), args.list, response)

\* self.close(): the callable of a device command named close when there
\* is one, the method of the class otherwise
call_close(self, response) ==
    IF HasAttr(self, "close")
    THEN method_func_base(self, BoundName(self, "close"), <<>>, response)
    ELSE Call(close(self), FALSE, <<>>, Returns({}), RetNone)

\* self.get_methods(), likewise; listed is what the method of the class
\* returns
MethodsCall(c, listed) == [call |-> c, listed |-> listed]

call_get_methods(self, response) ==
    IF HasAttr(self, "get_methods")
    THEN MethodsCall(method_func_base(self, BoundName(self, "get_methods"),
                                      <<>>, response), {})
    ELSE MethodsCall(Call(self, FALSE, <<>>, Returns({}), RetNone),
                     get_methods(self))

(***************************************************************************)
(* The constructor as a whole, lines 87-96, for a given port: opens says   *)
(* whether SerialDevice(...) opens the port, r2, r1 and r0 are what the    *)
(* link hands back for the three calls.  constructed says that the         *)
(* constructor returned the object; the object is kept either way, for the *)
(* state of its link.                                                      *)
(***************************************************************************)
Built(self, exc, requests) ==
    [self |-> self, constructed |-> exc = "", exc |-> exc, requests |-> requests]

RemoteDevice_init(port, opens, r2, r1, r0) ==
    IF ~opens
    THEN Built([NoSession EXCEPT !.port = port], "SerialException", <<>>)
    ELSE LET s2 == get_response_dict(NewSession(port), r2)
             s1 == get_method_dict(s2.self, r1)
             s0 == get_device_info(s1.self, r0)
             q2 == <<args_to_request(response_dict_request)>>
             q1 == Append(q2, args_to_request(method_dict_request))
             q0 == Append(q1, args_to_request(device_info_request))
         IN IF s2.exc # "" THEN Built(s2.self, s2.exc, q2)
            ELSE IF s1.exc # "" THEN Built(s1.self, s1.exc, q1)
            ELSE Built(s0.self, s0.exc, q0)

(***************************************************************************)
(* The model_number and serial_number filters of the discovery scan        *)
(***************************************************************************)
NoFilter == [kind |-> "None", vals |-> {}]
IntFilter(n) == [kind |-> "int", vals |-> {IntV(n)}]
ListFilter(ns) == [kind |-> "list", vals |-> {IntV(n) : n \in ns}]

\* lines 354-357: an int becomes the list of that int
AsList(filter) ==
    IF filter.kind = "int" THEN [filter EXCEPT !.kind = "list"] ELSE filter

\* lines 363 and 364: "field in filter" is evaluated, on a filter that is
\* None, when the field is None too
FilterRaises(filter, field) == filter.kind = "None" /\ field = NoneV

\* lines 363 and 364: ((filter is None) and (field is not None)) or
\* (field in filter)
FilterAccepts(filter, field) ==
    \/ filter.kind = "None" /\ field # NoneV
    \/ filter.kind # "None" /\ field \in filter.vals

\* lines 362-369, one candidate port: the entry the port gets in
\* remote_device_ports (none when added is FALSE), the object as the
\* iteration leaves it, and the exception that leaves the loop, if any
Probed(b, self, added, exc) ==
    [self |-> self, constructed |-> b.constructed, init_exc |-> b.exc,
     added |-> added, exc |-> exc]

\* line 367, dev.close(), with the except clause of line 368 around it: c
\* is what the call did; the entry of the port, if it got one at line 365,
\* is in remote_device_ports already
AfterClose(b, c, added) ==
    Probed(b, c.self, added,
           IF c.exc \in {"", "SerialException", "IOError"} THEN "" ELSE c.exc)

\* rc is what the link hands back if dev.close() writes a request
probe_port(b, models, serials, rc) ==
    IF b.exc \in {"SerialException", "IOError"}
    THEN Probed(b, b.self, FALSE, "")
    ELSE IF b.exc # ""
    THEN Probed(b, b.self, FALSE, b.exc)
    ELSE IF FilterRaises(models, b.self.model_number)
    THEN Probed(b, b.self, FALSE, "TypeError")
    ELSE IF ~FilterAccepts(models, b.self.model_number)
    THEN AfterClose(b, call_close(b.self, rc), FALSE)
    ELSE IF FilterRaises(serials, b.self.serial_number)
    THEN Probed(b, b.self, FALSE, "TypeError")
    ELSE AfterClose(b, call_close(b.self, rc),
                    FilterAccepts(serials, b.self.serial_number))

\* lines 378-388: the port find_remote_device_port returns, or the error
\* it raises with the ports its message lists
Found(port) ==
    [exc |-> "", msg |-> "", port |-> port, tried |-> {}, matching |-> {}]
NotFound(msg, tried, matching) ==
    [exc |-> "RuntimeError", msg |-> msg, port |-> "", tried |-> tried,
     matching |-> matching]

\* some matching port returned whenever there is a match
resolve_port_any_match(rdp, ports) ==
    IF Cardinality(rdp) >= 1
    THEN Found((CHOOSE p \in rdp : TRUE)[1])
    ELSE NotFound("Could not find any Remote devices. Check connections and permissions.",
                  {ports[i] : i \in 1..Len(ports)}, {})

resolve_port(rdp, ports) ==
    IF Cardinality(rdp) = 1
    THEN Found((CHOOSE p \in rdp : TRUE)[1])
    ELSE IF Cardinality(rdp) = 0
    THEN NotFound("Could not find any Remote devices. Check connections and permissions.",
                  {ports[i] : i \in 1..Len(ports)}, {})
    ELSE NotFound("Found more than one Remote device. Specify port or model_number and/or serial_number.",
                  {}, rdp)

(***************************************************************************)
(* RemoteDevices: the order of its sort                                    *)
(***************************************************************************)
\* the identity fields of the swapped key
CollectionKey_serial_first(self) == <<self.serial_number, self.model_number>>

\* line 275: operator.attrgetter('model_number','serial_number')
CollectionKey(self) == <<self.model_number, self.serial_number>>

\* a < b for identity fields, as the interpreter of the source orders
\* them: None before every number, numbers by value
ValueLess(a, b) ==
    IF a.type = "NoneType" THEN b.type # "NoneType"
    ELSE b.type # "NoneType" /\ a.num < b.num

\* tuples of two fields, the first field first
KeyLess(k, l) ==
    \/ ValueLess(k[1], l[1])
    \/ k[1] = l[1] /\ ValueLess(k[2], l[2])

\* list.sort with the key: an element goes after the elements whose key is
\* not greater than its own, so that equal keys keep their order
RECURSIVE InsertByKey(_, _)
InsertByKey(sorted, self) ==
    IF sorted = <<>> THEN <<self>>
    ELSE IF KeyLess(CollectionKey(self), CollectionKey(Head(sorted)))
    THEN <<self>> \o sorted
    ELSE <<Head(sorted)>> \o InsertByKey(Tail(sorted), self)

RECURSIVE sort_by_model_number(_)
sort_by_model_number(list) ==
    IF list = <<>> THEN <<>>
    ELSE InsertByKey(sort_by_model_number(SubSeq(list, 1, Len(list) - 1)),
                     list[Len(list)])

(***************************************************************************)
(* Bounds                                                                  *)
(***************************************************************************)
\* method calls made on one session
MaxInvokes == 2
\* entries of a dict handed to the response normaliser
MaxNormKeys == 3
\* candidate serial ports of a discovery scan
NumPorts == 3
\* calls of close() on one session
MaxCloses == 2

(***************************************************************************)
(* The lines a device may answer with                                      *)
(***************************************************************************)
StatusValues == {IntV(0), IntV(1)}

\* a reply may lack status, cmd_id or both; ids are the ids it may echo
Headers(ids) ==
    {s \cup c :
        s \in {{}} \cup {{<<"status", v>>} : v \in StatusValues},
        c \in {{}} \cup {{<<"cmd_id", IntV(i)>>} : i \in ids}}

Replies(ids, bodies) ==
    {NoResponse, Garbage, ArrayLine}
        \cup {ObjectLine(h \cup b) : h \in Headers(ids), b \in bodies}

\* a reply with the success status and the id of the request
GoodReply(id, body) ==
    ObjectLine({<<"status", IntV(0)>>, <<"cmd_id", IntV(id)>>} \cup body)

ErrBody == {<<"err_msg", StrV("boom")>>}
CodesBody == {<<"rsp_success", IntV(0)>>, <<"rsp_error", IntV(1)>>}
CatalogBody == {<<"getDeviceInfo", IntV(0)>>, <<"setLed", IntV(3)>>}
\* a catalog whose command names, once exposed, are names the object has
\* already: its methods close and get_methods, its attribute device_info
ShadowCatalog == {<<"close", IntV(3)>>, <<"getMethods", IntV(4)>>}
DataCatalog == {<<"setLed", IntV(3)>>, <<"deviceInfo", IntV(4)>>}
InfoBody(m, n) == {<<"model_number", IntV(m)>>, <<"serial_number", IntV(n)>>}

CodesBodies == {{}, ErrBody, CodesBody, {<<"rsp_success", IntV(0)>>}}
CatalogBodies == {{}, ErrBody, CatalogBody}
InfoBodies == {{}, ErrBody, InfoBody(7, 1), {<<"serial_number", IntV(1)>>}}
ResultBodies ==
    {{}, ErrBody, {<<"x", IntV(5)>>}, {<<"a", StrV("")>>, <<"b", StrV("y")>>}}

\* the ids a reply to each call may echo: the id sent and another one
CodesIds == {GET_RESPONSE_CODES_METHOD_ID, GET_METHOD_IDS_METHOD_ID}
CatalogIds == {GET_METHOD_IDS_METHOD_ID, GET_DEVICE_INFO_METHOD_ID}
InfoIds == {GET_DEVICE_INFO_METHOD_ID, GET_RESPONSE_CODES_METHOD_ID}
ResultIds == {3, 4}

\* the names and positional arguments of the method calls of the model
InvokeNames == {"setLed", "blink"}
InvokeArgs == {<<IntV(1), StrV("x")>>}

(***************************************************************************)
(* State                                                                   *)
(***************************************************************************)
VARIABLES
    dev,       \* the RemoteDevice object under construction or in use
    pc,        \* where its constructor is: new, opened, got_response_dict,
               \* got_method_dict, ready (returned) or raised
    sent,      \* the request lines written to its link, in order
    last,      \* the last call on it: request, reply, the outcome of
               \* _send_request_get_response (exc, msg, val), the value a
               \* method call returned (ret), what the operation raised
    replies,   \* what the link handed back for the calls of the constructor
    invokes,   \* method calls made on it
    failures,  \* method calls among them that raised IOError
    callee,    \* how the last method call was made and under which name
    listed,    \* what the last get_methods() returned
    link_in,   \* lines in the input buffer of the link, each with the
               \* index in sent of the request the device wrote it for
    read_answers,  \* the index in sent of the request that the line the
                   \* last write_read handed back answers, 0 for no line
    exited,    \* the process has exited and the atexit functions have run
    closes     \* calls of close() made on it

svars == <<dev, pc, sent, last, replies, invokes, failures, callee, listed,
           link_in, read_answers, exited, closes>>

VARIABLES
    norm_in,    \* the result dict handed to _process_response_dict
    norm_out,   \* what it returned
    norm_done   \* whether it has run on norm_in

nvars == <<norm_in, norm_out, norm_done>>

VARIABLES
    scan_entry,           \* the discovery function called, "" before the call
    model_number,         \* its model_number filter, after lines 354-355
    serial_number,        \* its serial_number filter, after lines 356-357
    scan_pc,              \* idle, loop, returned, raised or resolved
    scan_i,               \* the index of the next candidate port
    remote_device_ports,  \* the dict the scan builds
    probes,               \* what the scan did on each port it tried so far
    port_result           \* what find_remote_device_port returned or raised

dvars == <<scan_entry, model_number, serial_number, scan_pc, scan_i,
           remote_device_ports, probes, port_result>>

VARIABLES
    coll_world,   \* the device behind each candidate port
    coll_filter,  \* the model_number filter given to RemoteDevices(...)
    coll_pc,      \* idle, loop, constructed or raised
    coll_ports,   \* the dict find_remote_device_ports returned (line 255)
    coll_todo,    \* the ports of it the loop of line 259 has yet to open
    coll_opened,  \* the objects appended, in the order of appending
    coll          \* the list itself

cvars == <<coll_world, coll_filter, coll_pc, coll_ports, coll_todo,
           coll_opened, coll>>

NoCall ==
    [op |-> "none", wrote |-> FALSE, request |-> <<>>, response |-> NoResponse,
     exc |-> "", msg |-> "", val |-> {}, ret |-> RetNone,
     op_exc |-> "", op_msg |-> ""]

NoCallee == [how |-> "none", name |-> "", args |-> Positional(<<>>)]

SessionInit ==
    /\ dev = NoSession
    /\ pc = "new"
    /\ sent = <<>>
    /\ last = NoCall
    /\ replies = <<>>
    /\ invokes = 0
    /\ failures = 0
    /\ callee = NoCallee
    /\ listed = {}
    /\ link_in = <<>>
    /\ read_answers = 0
    /\ exited = FALSE
    /\ closes = 0

\* Line 130, write_read on the link: the line it hands back is the one the
\* device writes for this request, or a line that was in the input buffer
\* already (whether write_read discards the buffer first is the link's
\* business: both are possible)
LinkSources == IF link_in = <<>> THEN {"device"} ELSE {"device", "buffer"}

LinkLines(src, fresh) == IF src = "buffer" THEN {link_in[1].line} ELSE fresh

\* the link after a call: a write_read leaves the input buffer empty
LinkRead(wrote, src, response) ==
    /\ link_in' = IF wrote THEN <<>> ELSE link_in
    /\ read_answers' =
            IF ~wrote THEN read_answers
            ELSE IF response.kind = "none" THEN 0
            ELSE IF src = "buffer" THEN link_in[1].answers
            ELSE Len(sent) + 1

\* line 88: SerialDevice(...) opens the port or raises
Open ==
    /\ pc = "new"
    /\ ~exited
    /\ \E opens \in BOOLEAN :
        /\ dev' = IF opens THEN NewSession("port") ELSE dev
        /\ pc' = IF opens THEN "opened" ELSE "raised"
        /\ last' = [NoCall EXCEPT !.op = "open",
                                  !.op_exc = IF opens THEN "" ELSE "SerialException"]
    /\ UNCHANGED <<sent, replies, invokes, failures, callee, listed, link_in,
                   read_answers, exited, closes>>
    /\ UNCHANGED <<nvars, dvars, cvars>>

\* One call of the constructor: the request is written, the reply read,
\* and the constructor goes on or raises
HandshakeCall(op, request, st, response, next) ==
    /\ ~exited
    /\ dev' = st.self
    /\ sent' = Append(sent, args_to_request(request))
    /\ pc' = IF st.exc = "" THEN next ELSE "raised"
    /\ last' = [op |-> op, wrote |-> TRUE, request |-> request,
                response |-> response, exc |-> st.call.exc, msg |-> st.call.msg,
                val |-> st.call.val, ret |-> RetNone,
                op_exc |-> st.exc, op_msg |-> st.msg]
    /\ replies' = Append(replies, response)
    /\ LinkRead(TRUE, "device", response)
    /\ UNCHANGED <<invokes, failures, callee, listed, exited, closes>>
    /\ UNCHANGED <<nvars, dvars, cvars>>

\* line 92
GetResponseDict ==
    /\ pc = "opened"
    /\ \E response \in Replies(CodesIds, CodesBodies) :
        HandshakeCall("get_response_dict", response_dict_request,
                      get_response_dict(dev, response), response,
                      "got_response_dict")

\* lines 93-95
GetMethodDict ==
    /\ pc = "got_response_dict"
    /\ \E response \in Replies(CatalogIds, CatalogBodies) :
        HandshakeCall("get_method_dict", method_dict_request,
                      get_method_dict(dev, response), response,
                      "got_method_dict")

\* line 96
GetDeviceInfo ==
    /\ pc = "got_method_dict"
    /\ \E response \in Replies(InfoIds, InfoBodies) :
        HandshakeCall("get_device_info", device_info_request,
                      get_device_info(dev, response), response, "ready")

\* What a call c made as operation op leaves behind: the object, the
\* request written if one was, the record of the call, the link
Called(op, c, src, response) ==
    /\ dev' = c.self
    /\ sent' = IF c.wrote THEN Append(sent, args_to_request(c.request))
               ELSE sent
    /\ last' = [op |-> op, wrote |-> c.wrote, request |-> c.request,
                response |-> IF c.wrote THEN response ELSE NoResponse,
                exc |-> c.exc, msg |-> c.msg, val |-> c.val, ret |-> c.ret,
                op_exc |-> c.exc, op_msg |-> c.msg]
    /\ failures' = IF c.exc = "IOError" THEN failures + 1 ELSE failures
    /\ LinkRead(c.wrote, src, response)

\* a method call on the constructed object, by the name of the command
Invoke ==
    /\ pc = "ready"
    /\ ~exited
    /\ dev.serial_device = "open"
    /\ invokes < MaxInvokes
    /\ \E name \in InvokeNames, args \in InvokeArgs, src \in LinkSources :
        \E response \in LinkLines(src, Replies(ResultIds, ResultBodies)) :
            /\ Called("invoke", method_func_base(dev, name, args, response),
                      src, response)
            /\ callee' = [how |-> "name", name |-> name,
                          args |-> Positional(args)]
    /\ invokes' = invokes + 1
    /\ UNCHANGED <<pc, replies, listed, exited, closes>>
    /\ UNCHANGED <<nvars, dvars, cvars>>

\* The reply of the device to the request of a method call arrives after
\* the read of that call gave up or handed back an older line
LateReplyBody == {<<"x", IntV(5)>>}

LateReply ==
    /\ pc = "ready"
    /\ ~exited
    /\ dev.serial_device = "open"
    /\ last.op = "invoke"
    /\ last.wrote
    /\ last.request[1].type = "int"
    /\ read_answers # Len(sent)
    /\ link_in = <<>>
    /\ link_in' = <<[line |-> GoodReply(last.request[1].num, LateReplyBody),
                     answers |-> Len(sent)]>>
    /\ UNCHANGED <<dev, pc, sent, last, replies, invokes, failures, callee,
                   listed, read_answers, exited, closes>>
    /\ UNCHANGED <<nvars, dvars, cvars>>

\* self.close() on the constructed object
Close ==
    /\ pc = "ready"
    /\ ~exited
    /\ closes < MaxCloses
    /\ HasAttr(dev, "close")
        => dev.serial_device = "open" /\ invokes < MaxInvokes
    /\ \E src \in LinkSources :
        \E response \in IF HasAttr(dev, "close")
                        THEN LinkLines(src, Replies(ResultIds, ResultBodies))
                        ELSE {NoResponse} :
            LET c == call_close(dev, response)
            IN /\ Called("close", c, src, response)
               /\ invokes' = IF c.wrote THEN invokes + 1 ELSE invokes
    /\ closes' = closes + 1
    /\ UNCHANGED <<pc, replies, callee, listed, exited>>
    /\ UNCHANGED <<nvars, dvars, cvars>>

\* the process exits: the functions registered with atexit run, for an
\* object whose constructor got as far as line 89
Exit ==
    /\ pc \in {"ready", "raised"}
    /\ dev.serial_device # "none"
    /\ ~exited
    /\ dev' = exit_remote_device(dev)
    /\ exited' = TRUE
    /\ UNCHANGED <<pc, sent, last, replies, invokes, failures, callee, listed,
                   link_in, read_answers, closes>>
    /\ UNCHANGED <<nvars, dvars, cvars>>

(***************************************************************************)
(* The object in use through the names it exposes: the constructor as one  *)
(* step, then calls of exposed names, of close() and of get_methods()      *)
(***************************************************************************)
RegistryCodesReplies == {GoodReply(GET_RESPONSE_CODES_METHOD_ID, CodesBody)}
RegistryCatalogReplies ==
    {GoodReply(GET_METHOD_IDS_METHOD_ID, c) :
        c \in {CatalogBody, ShadowCatalog, DataCatalog}} \cup {NoResponse}
RegistryInfoReplies ==
    {GoodReply(GET_DEVICE_INFO_METHOD_ID, InfoBody(7, 1)), ArrayLine}

AttrArgs ==
    {Positional(<<>>), Positional(<<IntV(1), StrV("x")>>),
     Mapping({<<"a", IntV(1)>>, <<"b", StrV("x")>>})}

\* lines 87-96 as one step
Construct ==
    /\ pc = "new"
    /\ ~exited
    /\ \E opens \in BOOLEAN, r2 \in RegistryCodesReplies,
          r1 \in RegistryCatalogReplies, r0 \in RegistryInfoReplies :
        LET b == RemoteDevice_init("port", opens, r2, r1, r0)
            n == Len(b.requests)
        IN /\ dev' = b.self
           /\ pc' = IF b.constructed THEN "ready" ELSE "raised"
           /\ sent' = b.requests
           /\ replies' = SubSeq(<<r2, r1, r0>>, 1, n)
           /\ last' = [NoCall EXCEPT !.op = "init", !.op_exc = b.exc]
           /\ read_answers' =
                IF n = 0 \/ <<r2, r1, r0>>[n].kind = "none" THEN 0 ELSE n
    /\ UNCHANGED <<invokes, failures, callee, listed, link_in, exited, closes>>
    /\ UNCHANGED <<nvars, dvars, cvars>>

\* self.<exposed>(...) for a name get_methods() lists, close and
\* get_methods apart
CallAttr ==
    /\ pc = "ready"
    /\ ~exited
    /\ dev.serial_device = "open"
    /\ invokes < MaxInvokes
    /\ \E exposed \in get_methods(dev) \ {"close", "get_methods"},
          args \in AttrArgs, src \in LinkSources :
        \E response \in LinkLines(src, Replies(ResultIds, ResultBodies)) :
            /\ Called("attr", call_attr(dev, exposed, args, response),
                      src, response)
            /\ callee' = [how |-> "attr", name |-> exposed, args |-> args]
    /\ invokes' = invokes + 1
    /\ UNCHANGED <<pc, replies, listed, exited, closes>>
    /\ UNCHANGED <<nvars, dvars, cvars>>

\* self.get_methods() on the constructed object
GetMethods ==
    /\ pc = "ready"
    /\ ~exited
    /\ HasAttr(dev, "get_methods")
        => dev.serial_device = "open" /\ invokes < MaxInvokes
    /\ \E src \in LinkSources :
        \E response \in IF HasAttr(dev, "get_methods")
                        THEN LinkLines(src, Replies(ResultIds, ResultBodies))
                        ELSE {NoResponse} :
            LET m == call_get_methods(dev, response)
            IN /\ Called("get_methods", m.call, src, response)
               /\ listed' = m.listed
               /\ invokes' = IF m.call.wrote THEN invokes + 1 ELSE invokes
    /\ UNCHANGED <<pc, replies, callee, exited, closes>>
    /\ UNCHANGED <<nvars, dvars, cvars>>

RegistryNext ==
    \/ Construct
    \/ CallAttr
    \/ GetMethods
    \/ Close
    \/ Exit

SessionNext ==
    \/ Open
    \/ GetResponseDict
    \/ GetMethodDict
    \/ GetDeviceInfo
    \/ Invoke
    \/ LateReply
    \/ Close
    \/ Exit

(***************************************************************************)
(* The response normaliser on its own                                      *)
(***************************************************************************)
NormKeys == {KeyOrder[i] : i \in 1..MaxNormKeys}
NormValues == {StrV(""), StrV("y"), IntV(0), IntV(5), BoolV(FALSE), NoneV}

\* every dict over NormKeys with values in NormValues
NormInputs ==
    UNION {{{<<k, f[k]>> : k \in S} : f \in [S -> NormValues]} :
              S \in SUBSET NormKeys}

\* the normaliser is not in use
NormIdle ==
    /\ norm_in = {}
    /\ norm_out = RetNone
    /\ norm_done = FALSE

\* the normaliser is about to run on some result dict
NormInit ==
    /\ norm_in \in NormInputs
    /\ norm_out = RetNone
    /\ norm_done = FALSE

Normalize ==
    /\ ~norm_done
    /\ norm_out' = process_response_dict(norm_in)
    /\ norm_done' = TRUE
    /\ UNCHANGED norm_in
    /\ UNCHANGED <<svars, dvars, cvars>>

NormNext == Normalize

(***************************************************************************)
(* The discovery scan                                                      *)
(***************************************************************************)
PortName(i) == "port" \o IntToStr(i)

\* what find_serial_device_ports returns: the candidate ports, in order
\* (on Darwin, those the name filter of line 352 keeps)
serial_device_ports == [i \in 1..NumPorts |-> PortName(i)]

ScanCodesReplies ==
    {GoodReply(GET_RESPONSE_CODES_METHOD_ID, CodesBody), NoResponse}
ScanCatalogReplies ==
    {GoodReply(GET_METHOD_IDS_METHOD_ID, CatalogBody), Garbage}
ScanInfoReplies ==
    {GoodReply(GET_DEVICE_INFO_METHOD_ID, b) :
        b \in {InfoBody(7, 1), InfoBody(7, 2), InfoBody(3, 1),
               {<<"serial_number", IntV(1)>>}, {<<"model_number", IntV(7)>>}}}
        \cup {NoResponse, ArrayLine}

\* what the link hands back when dev.close() at line 367 writes a request
ScanCloseReplies ==
    {NoResponse, ObjectLine({<<"status", IntV(1)>>, <<"cmd_id", IntV(3)>>})}

\* What a candidate port answers to the three requests of the constructor
\* and to a request that dev.close() writes: the replies above, and a
\* device (7,1) whose catalog has a command named close
ScanReplies ==
    (ScanCodesReplies \X ScanCatalogReplies \X ScanInfoReplies \X {NoResponse})
        \cup ({GoodReply(GET_RESPONSE_CODES_METHOD_ID, CodesBody)}
                \X {GoodReply(GET_METHOD_IDS_METHOD_ID, ShadowCatalog)}
                \X {GoodReply(GET_DEVICE_INFO_METHOD_ID, InfoBody(7, 1))}
                \X ScanCloseReplies)

ModelFilters == {NoFilter, IntFilter(7), ListFilter({3, 7})}
SerialFilters == {NoFilter, IntFilter(2)}

NoPort == Found("")

DiscoveryInit ==
    /\ scan_entry = ""
    /\ model_number = NoFilter
    /\ serial_number = NoFilter
    /\ scan_pc = "idle"
    /\ scan_i = 1
    /\ remote_device_ports = {}
    /\ probes = <<>>
    /\ port_result = NoPort

\* lines 349-359, entered directly or from find_remote_device_port
ScanStart ==
    /\ scan_pc = "idle"
    /\ \E e \in {"find_remote_device_ports", "find_remote_device_port"},
          models \in ModelFilters, serials \in SerialFilters :
        /\ scan_entry' = e
        /\ model_number' = AsList(models)
        /\ serial_number' = AsList(serials)
    /\ scan_pc' = "loop"
    /\ remote_device_ports' = {}
    /\ UNCHANGED <<scan_i, probes, port_result>>
    /\ UNCHANGED <<svars, nvars, cvars>>

\* lines 360-369: one iteration of the loop
ScanProbe ==
    /\ scan_pc = "loop"
    /\ scan_i <= NumPorts
    /\ \E opens \in BOOLEAN, r \in ScanReplies :
        LET port == serial_device_ports[scan_i]
            pr == probe_port(RemoteDevice_init(port, opens, r[1], r[2], r[3]),
                             model_number, serial_number, r[4])
        IN /\ probes' = Append(probes, pr)
           /\ remote_device_ports' =
                IF pr.added
                THEN remote_device_ports \cup
                        {<<port, <<pr.self.model_number, pr.self.serial_number>>>>}
                ELSE remote_device_ports
           /\ scan_pc' = IF pr.exc # "" THEN "raised" ELSE scan_pc
           /\ scan_i' = IF pr.exc # "" THEN scan_i ELSE scan_i + 1
    /\ UNCHANGED <<scan_entry, model_number, serial_number, port_result>>
    /\ UNCHANGED <<svars, nvars, cvars>>

\* line 370
ScanReturn ==
    /\ scan_pc = "loop"
    /\ scan_i > NumPorts
    /\ scan_pc' = "returned"
    /\ UNCHANGED <<scan_entry, model_number, serial_number, scan_i,
                   remote_device_ports, probes, port_result>>
    /\ UNCHANGED <<svars, nvars, cvars>>

\* lines 378-388
ResolvePort ==
    /\ scan_pc = "returned"
    /\ scan_entry = "find_remote_device_port"
    /\ port_result' = resolve_port(remote_device_ports, serial_device_ports)
    /\ scan_pc' = "resolved"
    /\ UNCHANGED <<scan_entry, model_number, serial_number, scan_i,
                   remote_device_ports, probes>>
    /\ UNCHANGED <<svars, nvars, cvars>>

DiscoveryNext ==
    \/ ScanStart
    \/ ScanProbe
    \/ ScanReturn
    \/ ResolvePort

(***************************************************************************)
(* RemoteDevices(...): the scan, one RemoteDevice per port found, the sort *)
(***************************************************************************)
\* A device behind a port: whether the port opens, and what the device
\* answers to the device-info request (the first two calls of the
\* constructor it answers well)
CollDevice(opens, m, n) ==
    [opens |-> opens, info |-> GoodReply(GET_DEVICE_INFO_METHOD_ID, InfoBody(m, n))]

CollDevices ==
    {CollDevice(TRUE, 7, 2), CollDevice(TRUE, 3, 9), CollDevice(TRUE, 7, 1),
     CollDevice(FALSE, 7, 1)}

CollFilters == {NoFilter, IntFilter(7)}

\* RemoteDevice(port=...) on the device d, which answers the device-info
\* request with r0
OpenOn(i, d, r0) ==
    RemoteDevice_init(PortName(i), d.opens,
                      GoodReply(GET_RESPONSE_CODES_METHOD_ID, CodesBody),
                      GoodReply(GET_METHOD_IDS_METHOD_ID, CatalogBody), r0)

\* find_remote_device_ports as a whole, from candidate port i on: the dict
\* it returns or the exception that leaves it
RECURSIVE find_remote_device_ports(_, _, _, _)
find_remote_device_ports(world, i, models, serials) ==
    IF i > Len(world) THEN [exc |-> "", ports |-> {}]
    ELSE LET pr == probe_port(OpenOn(i, world[i], world[i].info),
                              models, serials, NoResponse)
             rest == find_remote_device_ports(world, i + 1, models, serials)
         IN IF pr.exc # "" THEN [exc |-> pr.exc, ports |-> {}]
            ELSE IF rest.exc # "" THEN rest
            ELSE [exc |-> "",
                  ports |-> rest.ports \cup
                    (IF pr.added
                     THEN {<<PortName(i),
                             <<pr.self.model_number, pr.self.serial_number>>>>}
                     ELSE {})]

CollectionIdle ==
    /\ coll_world = <<>>
    /\ coll_filter = NoFilter
    /\ coll_pc = "idle"
    /\ coll_ports = {}
    /\ coll_todo = {}
    /\ coll_opened = <<>>
    /\ coll = <<>>

\* RemoteDevices(model_number=...) is about to run, some device or none
\* behind each candidate port
CollectionInit ==
    /\ coll_world \in [1..NumPorts -> CollDevices]
    /\ coll_filter \in CollFilters
    /\ coll_pc = "idle"
    /\ coll_ports = {}
    /\ coll_todo = {}
    /\ coll_opened = <<>>
    /\ coll = <<>>

\* line 255 (use_ports is not given)
CollectionScan ==
    /\ coll_pc = "idle"
    /\ coll_world # <<>>
    /\ LET found == find_remote_device_ports(coll_world, 1,
                                             AsList(coll_filter), NoFilter)
       IN /\ coll_ports' = found.ports
          /\ coll_todo' = Keys(found.ports)
          /\ coll_pc' = IF found.exc = "" THEN "loop" ELSE "raised"
    /\ UNCHANGED <<coll_world, coll_filter, coll_opened, coll>>
    /\ UNCHANGED <<svars, nvars, dvars>>

\* lines 259-261, one iteration: the ports come in the order of the dict,
\* which is any order; the device answers the device-info request as it
\* did in the scan, or not at all, and the port opens or does not
AppendDevice ==
    /\ coll_pc = "loop"
    /\ \E i \in 1..NumPorts, opens \in BOOLEAN :
        \E r0 \in {coll_world[i].info, NoResponse} :
            LET b == OpenOn(i, [coll_world[i] EXCEPT !.opens = opens], r0)
            IN /\ PortName(i) \in coll_todo
               /\ coll_todo' = coll_todo \ {PortName(i)}
               /\ coll_pc' = IF b.constructed THEN "loop" ELSE "raised"
               /\ coll' = IF b.constructed THEN Append(coll, b.self) ELSE coll
               /\ coll_opened' = IF b.constructed THEN Append(coll_opened, b.self)
                                 ELSE coll_opened
    /\ UNCHANGED <<coll_world, coll_filter, coll_ports>>
    /\ UNCHANGED <<svars, nvars, dvars>>

\* line 263, and the constructor returns
SortCollection ==
    /\ coll_pc = "loop"
    /\ coll_todo = {}
    /\ coll' = sort_by_model_number(coll)
    /\ coll_pc' = "constructed"
    /\ UNCHANGED <<coll_world, coll_filter, coll_ports, coll_todo, coll_opened>>
    /\ UNCHANGED <<svars, nvars, dvars>>

CollectionNext ==
    \/ CollectionScan
    \/ AppendDevice
    \/ SortCollection

(***************************************************************************)
(* Specifications                                                          *)
(***************************************************************************)
vars == <<svars, nvars, dvars, cvars>>

Init == SessionInit /\ NormIdle /\ DiscoveryInit /\ CollectionIdle

Spec == Init /\ [][SessionNext]_vars

InitNormalizer == SessionInit /\ NormInit /\ DiscoveryInit /\ CollectionIdle

SpecNormalizer == InitNormalizer /\ [][NormNext]_vars

SpecDiscovery == Init /\ [][DiscoveryNext]_vars

SpecRegistry == Init /\ [][RegistryNext]_vars

InitCollection == SessionInit /\ NormIdle /\ DiscoveryInit /\ CollectionInit

SpecCollection == InitCollection /\ [][CollectionNext]_vars

(***************************************************************************)
(* Properties of the request/response correlation                          *)
(***************************************************************************)
\* the last operation wrote a request and read a reply line that parsed
\* to an object carrying both status and cmd_id
ReplyHasStatusAndId ==
    /\ last.wrote
    /\ last.response.kind = "object"
    /\ Has(last.response.obj, "status")
    /\ Has(last.response.obj, "cmd_id")

ReplyStatus == Get(last.response.obj, "status")
ReplyId == Get(last.response.obj, "cmd_id")

\* the status catalog was known when the request of the last operation was
\* sent: the first call of the constructor is the one that fetches it
CatalogKnownAtCall == last.op # "get_response_dict" /\ ~dev.response_dict_is_none

ReplyIsError ==
    CatalogKnownAtCall /\ ReplyStatus = Get(dev.response_dict, "rsp_error")

\* C1: a reply that carries status and cmd_id and whose cmd_id differs
\* from the id sent (the first element of the request) makes the call fail
\* with the id-mismatch error and return no payload, whatever the status and
\* the other fields of the reply are, in the calls of the constructor and in
\* method calls alike.
C1_IdMismatchFails ==
    (ReplyHasStatusAndId /\ ReplyId # last.request[1])
        => /\ last.exc = "IOError"
           /\ last.msg = "Device response id does not match that sent."
           /\ last.val = {}
           /\ last.ret = RetNone
           /\ last.op_exc = "IOError"

\* a method call got a reply with the error status, an err_msg and an id
\* that is not the one sent
C1_Witness ==
    /\ last.op = "invoke"
    /\ ReplyHasStatusAndId
    /\ ReplyId # last.request[1]
    /\ ReplyStatus = Get(dev.response_dict, "rsp_error")
    /\ Has(last.response.obj, "err_msg")
    /\ last.msg = "Device response id does not match that sent."

\* C2: once the status catalog is known, a reply whose cmd_id is the id
\* sent and whose status is the catalog's rsp_error makes the call fail with
\* the device error, which carries the reply's err_msg when there is one and
\* "Error message missing." otherwise; no payload is returned.
C2_ErrorStatusFails ==
    (ReplyHasStatusAndId /\ ReplyId = last.request[1] /\ ReplyIsError)
        => /\ last.exc = "IOError"
           /\ last.op_exc = "IOError"
           /\ last.msg = IF Has(last.response.obj, "err_msg")
                         THEN "(from device) boom"
                         ELSE "Error message missing."
           /\ last.val = {}
           /\ last.ret = RetNone

\* a method call failed with the message of the device
C2_Witness ==
    /\ last.op = "invoke"
    /\ ReplyHasStatusAndId
    /\ ReplyId = last.request[1]
    /\ ReplyIsError
    /\ Has(last.response.obj, "err_msg")
    /\ last.msg = "(from device) boom"

\* C3: for a valid reply (status and cmd_id present, cmd_id the id sent,
\* status not the error status of the known catalog) the call returns the
\* reply without status and cmd_id: every other key with its value, and no
\* key the reply did not have.
C3_PayloadIsReplyMinusHeader ==
    (ReplyHasStatusAndId /\ ReplyId = last.request[1] /\ ~ReplyIsError)
        => /\ last.exc = ""
           /\ \A p \in last.response.obj :
                p[1] \notin {"status", "cmd_id"} => p \in last.val
           /\ \A p \in last.val :
                p \in last.response.obj /\ p[1] \notin {"status", "cmd_id"}

\* a method call returned a payload of two keys
C3_Witness ==
    /\ last.op = "invoke"
    /\ ReplyHasStatusAndId
    /\ last.exc = ""
    /\ Cardinality(last.val) = 2
    /\ Cardinality(last.response.obj) = 4

(***************************************************************************)
(* Properties of the constructor                                           *)
(***************************************************************************)
\* what is left of a reply object without status and cmd_id
PayloadOf(obj) == {p \in obj : p[1] \notin {"status", "cmd_id"}}

\* C8: when the constructor returns the object, each of its three calls
\* got a reply, the status catalog has rsp_success and rsp_error, the method
\* dict is the payload of the reply to the second call and device_info the
\* payload of the reply to the third; a call that fails or gets no catalog
\* makes the constructor raise.
C8_ConstructedMeansHandshakeDone ==
    pc = "ready"
        => /\ Has(dev.response_dict, "rsp_success")
           /\ Has(dev.response_dict, "rsp_error")
           /\ \A i \in 1..3 : replies[i].kind = "object"
           /\ dev.method_dict = PayloadOf(replies[2].obj)
           /\ dev.device_info = PayloadOf(replies[3].obj)

\* C9: the constructor writes "[2]", "[1]" and "[0]" in this order, each
\* after the reply to the one before has been processed, and a method call
\* writes its request only after these three.
C9_HandshakeOrder ==
    /\ pc = "opened" => sent = <<>> /\ replies = <<>>
    /\ pc = "got_response_dict"
        => /\ sent = <<"[2]\n">>
           /\ Len(replies) = 1
           /\ ~dev.response_dict_is_none
    /\ pc = "got_method_dict"
        => /\ sent = <<"[2]\n", "[1]\n">>
           /\ Len(replies) = 2
           /\ dev.method_dict = PayloadOf(replies[2].obj)
    /\ pc = "ready"
        => /\ Len(sent) >= 3
           /\ SubSeq(sent, 1, 3) = <<"[2]\n", "[1]\n", "[0]\n">>
           /\ Len(replies) = 3
    /\ (pc = "ready" /\ invokes = 0) => Len(sent) = 3
    /\ invokes > 0 => pc = "ready"
    /\ last.op = "invoke" /\ last.wrote
        => Len(sent) > 3 /\ sent[Len(sent)] = args_to_request(last.request)

\* a method call wrote its request after the three of the constructor
C9_Witness ==
    /\ pc = "ready"
    /\ invokes = 1
    /\ sent = <<"[2]\n", "[1]\n", "[0]\n", "[3,1,x]\n">>

(***************************************************************************)
(* Properties of method calls                                              *)
(***************************************************************************)
\* the reply of call c is valid for the session d: status and cmd_id are
\* there, cmd_id is the id sent, status is not the error status
ValidReplyTo(c, d) ==
    /\ c.wrote
    /\ c.response.kind = "object"
    /\ Has(c.response.obj, "status")
    /\ Has(c.response.obj, "cmd_id")
    /\ Get(c.response.obj, "cmd_id") = c.request[1]
    /\ Get(c.response.obj, "status") # Get(d.response_dict, "rsp_error")

C10_Step ==
    (last'.op = "invoke" /\ invokes' = invokes + 1)
        => /\ last'.exc = "IOError"
                => /\ dev'.response_dict_is_none = dev.response_dict_is_none
                   /\ dev'.response_dict = dev.response_dict
                   /\ dev'.method_dict = dev.method_dict
                   /\ dev'.attrs = dev.attrs
                   /\ dev'.device_info = dev.device_info
                   /\ dev'.model_number = dev.model_number
                   /\ dev'.serial_number = dev.serial_number
                   /\ dev'.serial_device = dev.serial_device
                   /\ pc' = pc
           /\ (failures > 0 /\ ValidReplyTo(last', dev))
                => /\ last'.exc = ""
                   /\ last'.val = PayloadOf(last'.response.obj)
                   /\ (last'.val # {} => last'.ret # RetNone)

\* C10: a method call that raises IOError (missing status, missing cmd_id,
\* id mismatch, device error) leaves the catalogs, the identity and the link
\* of the session as they were, and a later method call whose reply is valid
\* and carries the id sent returns the payload of that reply.
C10_FailedCallKeepsSession == [][C10_Step]_vars

\* a method call returned a payload after an earlier one had raised IOError
C10_Witness ==
    /\ failures > 0
    /\ last.op = "invoke"
    /\ last.exc = ""
    /\ last.val # {}
    /\ dev.serial_device = "open"

\* the step is a method call made by the name of the command
InvokeStep == last'.op = "invoke" /\ invokes' = invokes + 1

C11_Step ==
    (InvokeStep /\ ~Has(dev.method_dict, callee'.name))
        => /\ last'.exc = "KeyError"
           /\ last'.msg = callee'.name
           /\ last'.op_exc = "KeyError"
           /\ ~last'.wrote
           /\ last'.ret = RetNone
           /\ sent' = sent
           /\ link_in' = link_in
           /\ read_answers' = read_answers
           /\ dev' = dev
           /\ pc' = pc

\* C11: a method call by a name that is not a key of the method dict of
\* the session raises KeyError with that name (line 184) before a request
\* is built: nothing is written to the link, nothing is read from it, and
\* the object is as it was.
C11_UnknownNameFailsBeforeWrite == [][C11_Step]_vars

\* a call of the unknown name blink, after a call that wrote its request,
\* raised KeyError and left the four requests written so far
C11_Witness ==
    /\ last.op = "invoke"
    /\ callee.name = "blink"
    /\ ~Has(dev.method_dict, "blink")
    /\ Has(dev.method_dict, "setLed")
    /\ last.exc = "KeyError"
    /\ invokes = 2
    /\ Len(sent) = 4

\* C17: a payload that a method call returns comes from the line the
\* device wrote for the request of that very call: the line of an earlier
\* request whose read had timed out, arriving late, is never taken for the
\* reply of a later request, even when both requests carry the same id.
C17_NoStaleReplyAccepted ==
    (last.op = "invoke" /\ last.wrote /\ last.exc = "" /\ last.val # {})
        => read_answers = Len(sent)

C18_Step ==
    (sent' # sent /\ last'.wrote /\ last'.response = NoResponse)
        => /\ last'.exc = ""
           /\ last'.msg = ""
           /\ last'.val = {}
           /\ dev'.response_dict_is_none = dev.response_dict_is_none
           /\ dev'.response_dict = dev.response_dict
           /\ dev'.method_dict = dev.method_dict
           /\ dev'.device_info = dev.device_info
           /\ dev'.model_number = dev.model_number
           /\ dev'.serial_number = dev.serial_number
           /\ last'.op = "invoke"
                => /\ last'.op_exc = ""
                   /\ last'.ret = RetNone
                   /\ dev' = dev

\* C18: when the read of a request times out (the link hands back None),
\* _send_request_get_response returns the empty dict and raises nothing,
\* with no check of status, cmd_id or error status; a method call then
\* returns None, not {} and not a normalised value; the catalogs and the
\* identity of the session are as before the call.
C18_TimeoutIsNoData == [][C18_Step]_vars

\* the second of two method calls timed out and returned None, after the
\* first had returned a value
C18_Witness ==
    /\ last.op = "invoke"
    /\ last.wrote
    /\ last.response = NoResponse
    /\ last.exc = ""
    /\ last.ret = RetNone
    /\ invokes = 2
    /\ Len(sent) = 5
    /\ Has(dev.method_dict, "setLed")

\* the last call was self.<callee.name>(...) and a callable is there
AttrCalled == last.op = "attr" /\ HasAttr(dev, callee.name)

\* C12: a call of an exposed command with one dict argument writes one
\* request, the id of the command followed by the values of the dict (in
\* the order the device declares, some order of them at least), and then
\* goes on as a call with positional arguments does: the reply is
\* correlated and a valid one gives the normalised payload.
C12_DictCallSendsOrderedRequest ==
    (AttrCalled /\ callee.args.kind = "dict")
        => /\ last.wrote
           /\ Len(last.request) = 1 + Cardinality(callee.args.dict)
           /\ last.request[1] =
                Get(dev.method_dict, BoundName(dev, callee.name))
           /\ {last.request[i] : i \in 2..Len(last.request)}
                = Values(callee.args.dict)
           /\ sent[Len(sent)] = args_to_request(last.request)
           /\ ValidReplyTo(last, dev)
                => /\ last.exc = ""
                   /\ last.ret = ReturnValue(PayloadOf(last.response.obj))

(***************************************************************************)
(* Properties of the names the object exposes                              *)
(***************************************************************************)
\* C13: once the constructor has returned, every (name, id) entry of the
\* method dict has a callable under the exposed form of its name, a call of
\* it with positional arguments writes a request that starts with that id,
\* and get_methods() returns the exposed names that have such a callable.
C13_EveryCommandExposed ==
    pc = "ready"
        => /\ \A p \in dev.method_dict :
                /\ HasAttr(dev, underscore(p[1]))
                /\ Get(dev.method_dict, BoundName(dev, underscore(p[1]))) = p[2]
           /\ get_methods(dev) = {a[1] : a \in dev.attrs}
           /\ (last.op = "attr" /\ callee.args.kind = "positional")
                => /\ last.wrote
                   /\ \E p \in dev.method_dict :
                        /\ underscore(p[1]) = callee.name
                        /\ last.request = <<p[2]>> \o callee.args.list
           /\ (last.op = "get_methods" /\ ~last.wrote)
                => listed = {a[1] : a \in dev.attrs}

\* C20: whatever the catalog, after the constructor has returned close()
\* closes the link and writes no request, and get_methods() returns the
\* exposed names and writes no request.
C20_BuiltinsNotReplaced ==
    /\ last.op = "close"
        => /\ ~last.wrote
           /\ last.exc = ""
           /\ dev.serial_device = "closed"
    /\ last.op = "get_methods"
        => /\ ~last.wrote
           /\ last.exc = ""
           /\ listed = get_methods(dev)

(***************************************************************************)
(* Properties of close and of process exit                                 *)
(***************************************************************************)
\* C14: after the process has exited and the atexit functions have run,
\* the link of an object whose constructor had returned is closed, whether
\* close() had been called on it or not.
C14_ExitClosesLink ==
    (exited /\ pc = "ready") => dev.serial_device = "closed"

C15_Step ==
    /\ (closes' = closes + 1 /\ closes >= 1)
        => /\ last'.exc = ""
           /\ ~last'.wrote
           /\ dev' = dev
           /\ sent' = sent
           /\ dev'.serial_device = "closed"
    /\ dev.serial_device = "closed" => dev'.serial_device = "closed"

\* C15: a second or later close() on a session raises nothing and leaves
\* the object and its link as the first close() left them, the link closed;
\* no step opens a link that is closed.
C15_CloseIdempotent == [][C15_Step]_vars

(***************************************************************************)
(* Properties of the response normaliser                                   *)
(***************************************************************************)
\* the sequence l lists the keys of d once each, in ascending order
IsSortedKeyList(l, d) ==
    /\ Len(l) = Cardinality(d)
    /\ {l[i] : i \in 1..Len(l)} = Keys(d)
    /\ \A i \in 1..Len(l), j \in 1..Len(l) :
        i < j => KeyRank(l[i]) < KeyRank(l[j])

\* C4: for a non-empty result dict the normaliser returns the value of the
\* only entry when there is one entry; with two or more entries it returns
\* the sorted list of the keys when every value is the empty string, and
\* the dict itself when some value is not the empty string (a non-empty
\* string, 0, False or None).
C4_NormalizerShapes ==
    (norm_done /\ norm_in # {})
        => /\ Cardinality(norm_in) = 1
                => \E p \in norm_in : norm_out = RetScalar(p[2])
           /\ (Cardinality(norm_in) >= 2 /\ \A p \in norm_in : p[2] = StrV(""))
                => /\ norm_out.shape = "list"
                   /\ IsSortedKeyList(norm_out.list, norm_in)
           /\ (Cardinality(norm_in) >= 2 /\ \E p \in norm_in : p[2] # StrV(""))
                => norm_out = RetDict(norm_in)

\* the normaliser ran on a dict that mixes an empty string with 0 and None
C4_Witness ==
    /\ norm_done
    /\ Cardinality(norm_in) = MaxNormKeys
    /\ \E p \in norm_in : p[2] = StrV("")
    /\ \E p \in norm_in : p[2] = IntV(0)
    /\ \E p \in norm_in : p[2] = NoneV
    /\ norm_out = RetDict(norm_in)

(***************************************************************************)
(* Properties of the discovery scan                                        *)
(***************************************************************************)
Probe(i) == probes[i]
ProbedIndexes == 1..Len(probes)

\* the identity the scan found on port i
IdentityOn(i) == <<Probe(i).self.model_number, Probe(i).self.serial_number>>

ClaimAccepts(filter, field) == filter.kind = "None" \/ field \in filter.vals

\* the scan is over, by a return or by an exception
ScanOver == scan_pc \in {"returned", "resolved", "raised"}

\* C6: the scan returns a dict whose keys are exactly the candidate ports
\* on which the constructor returned an object whose identity both filters
\* accept, a filter accepting the members of its set and an unconstrained
\* filter accepting any identity field; a port whose constructor raises a
\* transport error is skipped and the ports after it are still probed.
C6_KeysAreAcceptedPorts ==
    (/\ ScanOver
     /\ \A i \in ProbedIndexes :
            Probe(i).init_exc \in {"", "SerialException", "IOError"})
        => /\ scan_pc # "raised"
           /\ Len(probes) = NumPorts
           /\ Keys(remote_device_ports) =
                {Probe(i).self.port : i \in
                    {j \in ProbedIndexes :
                        /\ Probe(j).constructed
                        /\ ClaimAccepts(model_number, Probe(j).self.model_number)
                        /\ ClaimAccepts(serial_number, Probe(j).self.serial_number)}}

\* The scenario of C6: with devices (7,1) and (7,2) and a third port that
\* does not open, model filter 7 finds both device ports, and model filter 7
\* with serial filter 2 finds the port of (7,2) alone.
C6_ScenarioHolds ==
    (/\ scan_pc \in {"returned", "resolved"}
     /\ model_number.vals = {IntV(7)}
     /\ {Probe(i).init_exc : i \in ProbedIndexes} = {"", "SerialException"}
     /\ {IdentityOn(i) : i \in {j \in ProbedIndexes : Probe(j).constructed}}
            = {<<IntV(7), IntV(1)>>, <<IntV(7), IntV(2)>>}
     /\ Cardinality({j \in ProbedIndexes : Probe(j).constructed}) = 2)
        => IF serial_number.kind = "None"
           THEN Cardinality(remote_device_ports) = 2
           ELSE /\ Cardinality(remote_device_ports) = 1
                /\ Values(remote_device_ports) = {<<IntV(7), IntV(2)>>}

\* C7: when the scan returns, every object its constructor calls returned,
\* added to remote_device_ports or not, has been closed, whatever device
\* is behind the port; this holds after each iteration of the loop too.
C7_ScannedSessionsClosed ==
    scan_pc \in {"loop", "returned", "resolved"}
        => \A i \in ProbedIndexes :
            Probe(i).constructed => Probe(i).self.serial_device = "closed"

\* C19: no two links are open on one port at any time, and once the scan
\* has returned no link that it opened is open, the link of a port whose
\* constructor raised an error the scan swallowed included.
C19_PortExclusive ==
    /\ \A i \in ProbedIndexes, j \in ProbedIndexes :
        (/\ i # j
         /\ Probe(i).self.serial_device = "open"
         /\ Probe(j).self.serial_device = "open")
            => Probe(i).self.port # Probe(j).self.port
    /\ scan_pc \in {"returned", "resolved"}
        => \A i \in ProbedIndexes : Probe(i).self.serial_device # "open"

(***************************************************************************)
(* Properties of RemoteDevices                                             *)
(***************************************************************************)
\* the identity of the i-th object of the list
C16_Key(i) == <<coll[i].model_number, coll[i].serial_number>>

\* C16: once RemoteDevices(...) has returned, the list is in ascending
\* order of (model_number, serial_number), the model number first and the
\* serial number among equal model numbers, and it holds the objects that
\* were opened, each once, one for every port the scan found.
C16_CollectionSorted ==
    coll_pc = "constructed"
        => /\ \A i \in 1..Len(coll), j \in 1..Len(coll) :
                i < j => ~KeyLess(C16_Key(j), C16_Key(i))
           /\ \A i \in 1..Len(coll), j \in 1..Len(coll) :
                (i < j /\ C16_Key(i)[1] = C16_Key(j)[1])
                    => ~ValueLess(C16_Key(j)[2], C16_Key(i)[2])
           /\ Len(coll) = Len(coll_opened)
           /\ {coll[i] : i \in 1..Len(coll)}
                = {coll_opened[i] : i \in 1..Len(coll_opened)}
           /\ Len(coll) = Cardinality(coll_ports)
           /\ {coll[i].port : i \in 1..Len(coll)} = Keys(coll_ports)

\* the objects with the identities (7,2), (3,9), (7,1), appended in this
\* order, end up in the order (3,9), (7,1), (7,2)
C16_Witness ==
    /\ coll_pc = "constructed"
    /\ [i \in 1..Len(coll_opened) |->
            <<coll_opened[i].model_number, coll_opened[i].serial_number>>]
        = <<<<IntV(7), IntV(2)>>, <<IntV(3), IntV(9)>>, <<IntV(7), IntV(1)>>>>
    /\ [i \in 1..Len(coll) |-> C16_Key(i)]
        = <<<<IntV(3), IntV(9)>>, <<IntV(7), IntV(1)>>, <<IntV(7), IntV(2)>>>>

====
